---------------------------- MODULE Spec2Model ----------------------------
(***************************************************************************)
(* Model of CustomDataset/metrics.py: per-class classification metrics     *)
(* (calculate_metrics, check_pred) and the five plotting operations        *)
(* (plot_roc_curve, plot_precision_recall_curve, plot_metrics_bar,         *)
(* plot_metrics_line, plot_confusion_matrix) with the directory they write *)
(* to and the pyplot figures they open.                                    *)
(*                                                                         *)
(* Python sequences are 0-based, TLA+ sequences 1-based: sample s of the   *)
(* model is Python index s-1, and column i of a score matrix is            *)
(* y_score[s][i+1].  An optional argument is <<>> (None) or <<v>>.         *)
(* Floats are exact fractions <<numerator, denominator>> in lowest terms;  *)
(* NaN is the fraction <<0, 0>>.                                           *)
(***************************************************************************)
EXTENDS Integers, Sequences, FiniteSets, TLC

VARIABLES
    op,        \* the operation the caller invokes
    y_true,    \* ground-truth label vector
    y_pred,    \* predicted label vector
    y_score,   \* optional score matrix (sequence of rows)
    labels,    \* optional list of class labels
    class_names, \* optional list of display names
    cls,       \* class index handed to check_pred
    metrics,   \* metrics record handed to plot_metrics_bar
    history,   \* metrics history handed to plot_metrics_line
    ret,       \* outcome of the last call: status, value or raise site
    dirState,  \* save_dir on disk: "missing" or "dir"
    files,     \* names of the files in save_dir
    writes,    \* files written by the last call, in order
    figures,   \* number of open pyplot figures
    drawn,     \* what the last call drew on its figure(s)
    fault,     \* where the environment failed the last call ("none": nowhere)
    pre,       \* save_dir and its files when the last call started
    calls      \* number of calls made so far

vars == <<op, y_true, y_pred, y_score, labels, class_names, cls, metrics,
          history, ret, dirState, files, writes, figures, drawn, fault, pre, calls>>

---------------------------------------------------------------------------
(* Bounds of the model *)

MaxLen == 2
MaxLabel == 1
MaxScore == 1
MaxRounds == 3
MaxClasses == 2
MaxCalls == 2

Labels == 0..MaxLabel
Scores == 0..MaxScore

None == <<>>
Some(v) == <<v>>

SeqsOf(S, lo, hi) == UNION {[1..n -> S] : n \in lo..hi}

---------------------------------------------------------------------------
(* Arithmetic helpers *)

RECURSIVE GCD(_, _)
GCD(a, b) == IF b = 0 THEN a ELSE GCD(b, a % b)

Zero == <<0, 1>>
One == <<1, 1>>
NaN == <<0, 0>>

\* float division n / d of two non-negative counts; 0 / 0 is NaN
Div(n, d) ==
    IF d = 0 THEN NaN
    ELSE LET g == GCD(n, d) IN <<n \div g, d \div g>>

RECURSIVE SumFn(_, _)
SumFn(f, S) ==
    IF S = {} THEN 0
    ELSE LET x == CHOOSE x \in S : TRUE IN f[x] + SumFn(f, S \ {x})

Count(S) == Cardinality(S)

Range(s) == {s[k] : k \in DOMAIN s}

\* np.unique: the distinct values, ascending
RECURSIVE SortedSeq(_)
SortedSeq(S) ==
    IF S = {} THEN <<>>
    ELSE LET m == CHOOSE x \in S : \A y \in S : x <= y
         IN <<m>> \o SortedSeq(S \ {m})

Unique(y) == SortedSeq(Range(y))

---------------------------------------------------------------------------
(* check_pred: the per-class binarization helper *)

\* The loop variable of check_pred is also named i, so the class index
\* passed in is overwritten before it is read: sample number s-1 is compared
\* with its own position.
check_pred(yt, i) ==
    [s \in 1..Len(yt) |-> IF yt[s] = s - 1 THEN 1 ELSE 0]

---------------------------------------------------------------------------
(* sklearn.metrics.precision_recall_fscore_support(y_true, y_pred, labels) *)

Samples(y) == DOMAIN y

tp_sum(yt, yp, c) == Count({s \in Samples(yt) : yt[s] = c /\ yp[s] = c})

\* a slip that counts the true samples of c where the predicted ones are meant
pred_sum_of_truth(yt, yp, c) == Count({s \in Samples(yt) : yt[s] = c})

pred_sum(yt, yp, c) == Count({s \in Samples(yp) : yp[s] = c})

true_sum(yt, yp, c) == Count({s \in Samples(yt) : yt[s] = c})

\* _prf_divide: an undefined ratio is reported as 0
prf_divide(n, d) == IF d = 0 THEN Zero ELSE Div(n, d)

\* the classes the scores are reported for, in order
prf_labels(yt, yp, lb) == IF lb = None THEN Unique(yt \o yp) ELSE lb[1]

precision_of(yt, yp, lb) ==
    LET L == prf_labels(yt, yp, lb)
    IN [k \in DOMAIN L |-> prf_divide(tp_sum(yt, yp, L[k]), pred_sum(yt, yp, L[k]))]

recall_of(yt, yp, lb) ==
    LET L == prf_labels(yt, yp, lb)
    IN [k \in DOMAIN L |-> prf_divide(tp_sum(yt, yp, L[k]), true_sum(yt, yp, L[k]))]

f1_of(yt, yp, lb) ==
    LET L == prf_labels(yt, yp, lb)
    IN [k \in DOMAIN L |->
           prf_divide(2 * tp_sum(yt, yp, L[k]),
                      true_sum(yt, yp, L[k]) + pred_sum(yt, yp, L[k]))]

---------------------------------------------------------------------------
(* sklearn.metrics.roc_curve followed by sklearn.metrics.auc *)

\* y_score[:, i]
Column(ys, i) == [s \in DOMAIN ys |-> ys[s][i + 1]]

NumCols(ys) == IF Len(ys) = 0 THEN 0 ELSE Len(ys[1])

\* cumulative counts of positives / negatives scored at or above threshold t
tps(bin, col, t) == Count({s \in DOMAIN bin : bin[s] = 1 /\ col[s] >= t})
fps(bin, col, t) == Count({s \in DOMAIN bin : bin[s] = 0 /\ col[s] >= t})
tps_above(bin, col, t) == Count({s \in DOMAIN bin : bin[s] = 1 /\ col[s] > t})
fps_above(bin, col, t) == Count({s \in DOMAIN bin : bin[s] = 0 /\ col[s] > t})

\* trapezoidal area under the (fpr, tpr) points, one point per distinct
\* score taken as threshold, starting from (0, 0)
roc_curve_auc(bin, col) ==
    LET P == Count({s \in DOMAIN bin : bin[s] = 1})
        N == Count({s \in DOMAIN bin : bin[s] = 0})
        T == Range(col)
        area == [t \in T |->
                    (fps(bin, col, t) - fps_above(bin, col, t))
                    * (tps(bin, col, t) + tps_above(bin, col, t))]
    IN Div(SumFn(area, T), 2 * P * N)

---------------------------------------------------------------------------
(* calculate_metrics *)

Ok(v) == [status |-> "ok", val |-> v]
Raise(site) == [status |-> "raise", val |-> site]

n_classes_of(yt) == Len(Unique(yt))

\* does the binarized ground truth hold both values
BothPresent(bin) == Cardinality(Range(bin)) > 1

\* one pass of the loop over range(n_classes): the AUC entry of class i,
\* or the error raised while computing it
auc_entry(yt, ys, i) ==
    LET y_true_binary == check_pred(yt, i)
    IN IF BothPresent(y_true_binary)
       THEN IF i >= NumCols(ys) THEN Raise("IndexError")
            ELSE IF Len(ys) # Len(y_true_binary) THEN Raise("roc_curve")
            ELSE Ok(roc_curve_auc(y_true_binary, Column(ys, i)))
       ELSE Ok(Zero)

calculate_metrics(yt, yp, ys, lb) ==
    IF Len(yt) # Len(yp) THEN Raise("precision_recall_fscore_support")
    ELSE
      LET precision == precision_of(yt, yp, lb)
          recall == recall_of(yt, yp, lb)
          f1 == f1_of(yt, yp, lb)
      IN IF ys = None
         THEN Ok([precision |-> precision, recall |-> recall, f1 |-> f1])
         ELSE
           LET n_classes == n_classes_of(yt)
               entry == [k \in 1..n_classes |-> auc_entry(yt, ys[1], k - 1)]
               failed == {k \in 1..n_classes : entry[k].status = "raise"}
           IN IF failed # {}
              THEN entry[CHOOSE k \in failed : \A j \in failed : k <= j]
              ELSE Ok([precision |-> precision, recall |-> recall, f1 |-> f1,
                       auc |-> [k \in 1..n_classes |-> entry[k].val]])

---------------------------------------------------------------------------
(* The file system and pyplot, as the plotting operations use them *)

\* os.makedirs: fails on an existing path, or when the environment refuses
makedirs(d, flt) ==
    IF d # "missing" THEN Raise("FileExistsError")
    ELSE IF flt = "makedirs" THEN Raise("makedirs")
    ELSE Ok("dir")

\* a slip that creates the directory without asking whether it exists
ensure_dir_unguarded(d, flt) == makedirs(d, flt)

ensure_dir(d, flt) ==
    IF d = "missing" THEN makedirs(d, flt) ELSE Ok(d)

\* plt.savefig into save_dir; `which` names the save the environment may fail
savefig(d, flt, which) ==
    IF d # "dir" THEN Raise("FileNotFoundError")
    ELSE IF flt = which THEN Raise(which)
    ELSE Ok(d)

\* what a plotting call leaves behind
Post(r, d, f, w, g, dr) ==
    [ret |-> r, dirState |-> d, files |-> f, writes |-> w, figures |-> g,
     drawn |-> dr]

MinOf(S) == CHOOSE k \in S : \A j \in S : k <= j

---------------------------------------------------------------------------
(* plot_roc_curve and plot_precision_recall_curve *)

\* [f'Class {i}' for i in range(n)]
DefaultNames(n) == [k \in 1..n |-> <<"Class", k - 1>>]

\* one pass of the loop over range(n_classes): TRUE when a curve is drawn
\* for class i, FALSE when the class is skipped, or the error raised by the
\* curve computation (`site`: roc_curve or precision_recall_curve)
curve_entry(yt, ys, names, i, site) ==
    LET y_true_binary == check_pred(yt, i)
    IN IF BothPresent(y_true_binary)
       THEN IF i >= NumCols(ys) THEN Raise("IndexError")
            ELSE IF Len(ys) # Len(y_true_binary) THEN Raise(site)
            ELSE IF i >= Len(names) THEN Raise("IndexError")
            ELSE Ok(TRUE)
       ELSE Ok(FALSE)

plot_class_curves(yt, ys, cn, site, name, d, f, g, flt) ==
    LET made == ensure_dir(d, flt)
    IN IF made.status = "raise" THEN Post(made, d, f, <<>>, g, {})
       ELSE
         LET n_classes == n_classes_of(yt)
             names == IF cn = None THEN DefaultNames(n_classes) ELSE cn[1]
             entry == [k \in 1..n_classes |->
                          curve_entry(yt, ys, names, k - 1, site)]
             failed == {k \in 1..n_classes : entry[k].status = "raise"}
             stop == IF failed = {} THEN n_classes + 1 ELSE MinOf(failed)
             curves == {k - 1 : k \in {j \in 1..(stop - 1) : entry[j].val}}
             \* plt.figure() has opened a figure by now
             saved == savefig(made.val, flt, "savefig")
         IN IF failed # {}
            THEN Post(entry[stop], made.val, f, <<>>, g + 1, curves)
            ELSE IF saved.status = "raise"
            THEN Post(saved, made.val, f, <<>>, g + 1, curves)
            ELSE Post(Ok("None"), made.val, f \cup {name}, <<name>>, g, curves)

plot_roc_curve(yt, ys, cn, d, f, g, flt) ==
    plot_class_curves(yt, ys, cn, "roc_curve", "roc_curves.png", d, f, g, flt)

plot_precision_recall_curve(yt, ys, cn, d, f, g, flt) ==
    plot_class_curves(yt, ys, cn, "precision_recall_curve",
                      "precision_recall_curves.png", d, f, g, flt)

---------------------------------------------------------------------------
(* plot_metrics_bar *)

HasAuc(m) == "auc" \in DOMAIN m

\* ax.bar(x, height): numpy broadcasts the positions against the heights
bar_ok(n, m) == n = m \/ n = 1 \/ m = 1

plot_metrics_bar(m, cn, d, f, g, flt) ==
    LET made == ensure_dir(d, flt)
        name == "classification_metrics.png"
    IN IF made.status = "raise" THEN Post(made, d, f, <<>>, g, <<>>)
       ELSE
         LET names == IF cn = None THEN DefaultNames(Len(m.precision)) ELSE cn[1]
             \* x = np.arange(len(class_names))
             n == Len(names)
             three == <<"Precision", "Recall", "F1-Score">>
             bars == IF HasAuc(m) THEN three \o <<"AUC">> ELSE three
             saved == savefig(made.val, flt, "savefig")
         IN IF ~(bar_ok(n, Len(m.precision)) /\ bar_ok(n, Len(m.recall))
                   /\ bar_ok(n, Len(m.f1)))
            THEN Post(Raise("bar"), made.val, f, <<>>, g + 1, <<>>)
            ELSE IF HasAuc(m) /\ ~bar_ok(n, Len(m.auc))
            THEN Post(Raise("bar"), made.val, f, <<>>, g + 1, three)
            ELSE IF saved.status = "raise"
            THEN Post(saved, made.val, f, <<>>, g + 1, bars)
            ELSE Post(Ok("None"), made.val, f \cup {name}, <<name>>, g, bars)

---------------------------------------------------------------------------
(* plot_metrics_line *)

Line(label, x, y) == [label |-> label, x |-> x, y |-> y]

\* a slip that numbers the rounds from 0: range(len(metrics_history))
epochs_from_zero(h) == [r \in 1..Len(h) |-> r - 1]

\* range(1, len(metrics_history) + 1)
epochs_of(h) == [r \in 1..Len(h) |-> r]

\* the subplot of class class_idx: its lines, or the error a lookup raises
line_subplot(h, class_idx) ==
    LET k == class_idx + 1
        epochs == epochs_of(h)
        short == {r \in DOMAIN h : Len(h[r].precision) < k
                                   \/ Len(h[r].recall) < k
                                   \/ Len(h[r].f1) < k}
        three == <<Line("Precision", epochs, [r \in DOMAIN h |-> h[r].precision[k]]),
                   Line("Recall", epochs, [r \in DOMAIN h |-> h[r].recall[k]]),
                   Line("F1-Score", epochs, [r \in DOMAIN h |-> h[r].f1[k]])>>
        noauc == {r \in DOMAIN h : ~HasAuc(h[r])}
        shortauc == {r \in DOMAIN h : HasAuc(h[r]) /\ Len(h[r].auc) < k}
        badauc == noauc \cup shortauc
    IN IF short # {} THEN [status |-> "raise", val |-> "IndexError", lines |-> <<>>]
       ELSE IF ~HasAuc(h[1]) THEN [status |-> "ok", val |-> "None", lines |-> three]
       ELSE IF badauc # {}
       THEN [status |-> "raise",
             val |-> IF MinOf(badauc) \in noauc THEN "KeyError" ELSE "IndexError",
             lines |-> three]
       ELSE [status |-> "ok", val |-> "None",
             lines |-> three \o
                 <<Line("AUC", epochs, [r \in DOMAIN h |-> h[r].auc[k]])>>]

plot_metrics_line(h, d, f, g, flt) ==
    LET made == ensure_dir(d, flt)
        name == "metrics_over_time.png"
    IN IF made.status = "raise" THEN Post(made, d, f, <<>>, g, <<>>)
       ELSE IF Len(h) = 0
       THEN Post(Raise("IndexError"), made.val, f, <<>>, g + 1, <<>>)
       ELSE
         LET n_classes == Len(h[1].precision)
             sub == [k \in 1..n_classes |-> line_subplot(h, k - 1)]
             failed == {k \in 1..n_classes : sub[k].status = "raise"}
             stop == IF failed = {} THEN n_classes ELSE MinOf(failed)
             subplots == [k \in 1..stop |-> sub[k].lines]
             saved == savefig(made.val, flt, "savefig")
         IN IF failed # {}
            THEN Post(Raise(sub[stop].val), made.val, f, <<>>, g + 1, subplots)
            ELSE IF saved.status = "raise"
            THEN Post(saved, made.val, f, <<>>, g + 1, subplots)
            ELSE Post(Ok("None"), made.val, f \cup {name}, <<name>>, g, subplots)

---------------------------------------------------------------------------
(* plot_confusion_matrix *)

\* sklearn.metrics.confusion_matrix: rows are true classes, columns predicted
\* classes, over the sorted labels that occur in either vector
confusion_matrix(yt, yp) ==
    LET L == Unique(yt \o yp)
    IN [r \in DOMAIN L |->
           [c \in DOMAIN L |->
               Count({s \in DOMAIN yt : yt[s] = L[r] /\ yp[s] = L[c]})]]

\* cm.sum(axis=1)
row_sums(cm) == [r \in DOMAIN cm |-> SumFn(cm[r], DOMAIN cm[r])]

\* cm.astype('float') / cm.sum(axis=1)[:, np.newaxis]
normalize(cm) ==
    [r \in DOMAIN cm |-> [c \in DOMAIN cm[r] |-> Div(cm[r][c], row_sums(cm)[r])]]

\* sns.heatmap(data, xticklabels=class_names, yticklabels=class_names):
\* seaborn takes len() of the tick labels it is handed, which None lacks
heatmap(cn) ==
    IF cn = None THEN Raise("TypeError") ELSE Ok("None")

plot_confusion_matrix(yt, yp, cn, d, f, g, flt) ==
    LET made == ensure_dir(d, flt)
        norm_png == "confusion_matrix_normalized.png"
        raw_png == "confusion_matrix_raw.png"
    IN IF made.status = "raise" THEN Post(made, d, f, <<>>, g, <<>>)
       ELSE IF Len(yt) # Len(yp)
       THEN Post(Raise("confusion_matrix"), made.val, f, <<>>, g, <<>>)
       ELSE
         LET cm == confusion_matrix(yt, yp)
             cm_norm == normalize(cm)
             saved1 == savefig(made.val, flt, "savefig")
             saved2 == savefig(made.val, flt, "savefig2")
         IN IF heatmap(cn).status = "raise"
            THEN Post(heatmap(cn), made.val, f, <<>>, g + 1, <<>>)
            ELSE IF saved1.status = "raise"
            THEN Post(saved1, made.val, f, <<>>, g + 1, <<cm_norm>>)
            ELSE IF saved2.status = "raise"
            THEN Post(saved2, made.val, f \cup {norm_png}, <<norm_png>>,
                      g + 1, <<cm_norm, cm>>)
            ELSE Post(Ok("None"), made.val, f \cup {norm_png, raw_png},
                      <<norm_png, raw_png>>, g, <<cm_norm, cm>>)

---------------------------------------------------------------------------
(* Inputs *)

LabelVectors == SeqsOf(Labels, 1, MaxLen)

\* labels=...: a list of distinct class labels, in any order
LabelLists ==
    {l \in SeqsOf(Labels, 1, MaxLabel + 1) :
        \A a, b \in DOMAIN l : a # b => l[a] # l[b]}

OptLabels == {None} \cup {Some(l) : l \in LabelLists}

Matrices(rows, cols) == [1..rows -> [1..cols -> Scores]]

\* class_names=...: omitted, or one display name per class
UserNames(n) == [k \in 1..n |-> <<"name", k - 1>>]
OptNames(n) == {None, Some(UserNames(n))}

ZeroMatrix(rows, cols) == [s \in 1..rows |-> [c \in 1..cols |-> 0]]

\* the end-to-end scenario of the specification, section 8
ExampleTrue == <<0, 1, 2, 0, 1, 2>>
ExamplePred == <<0, 1, 1, 0, 2, 2>>

\* a metrics record of n classes; a >= 0 gives it an 'auc' list of a entries
MkRecord(n, a) ==
    LET z == [k \in 1..n |-> Zero]
    IN IF a < 0 THEN [precision |-> z, recall |-> z, f1 |-> z]
       ELSE [precision |-> z, recall |-> z, f1 |-> z,
             auc |-> [k \in 1..a |-> Zero]]

\* records as calculate_metrics builds them: no 'auc', one entry per class,
\* or one entry short (a class that occurs in y_pred only)
RecordShapes ==
    UNION {{MkRecord(n, a) : a \in {-1, n} \cup (IF n > 1 THEN {n - 1} ELSE {})} :
              n \in 1..MaxClasses}

\* the second end-to-end scenario: 5 rounds of 2 classes each
ExampleHistory(a) == [r \in 1..5 |-> MkRecord(2, a)]

NoRecord == [precision |-> <<>>, recall |-> <<>>, f1 |-> <<>>]
NotCalled == [status |-> "none", val |-> "None"]

---------------------------------------------------------------------------
(* Metrics computation: a caller invokes check_pred or calculate_metrics *)

IdleDisk ==
    /\ dirState = "missing"
    /\ files = {}
    /\ writes = <<>>
    /\ figures = 0
    /\ drawn = <<>>
    /\ fault = "none"
    /\ pre = [dirState |-> "missing", files |-> {}]

InitCheckPred ==
    /\ op = "check_pred"
    /\ y_true \in SeqsOf(Labels, 0, MaxLen)
    /\ cls \in Labels
    /\ y_pred = <<>>
    /\ y_score = None
    /\ labels = None

InitCalculateMetrics ==
    /\ op = "calculate_metrics"
    /\ cls = 0
    /\ \/ \* any label vectors and labels list, without scores or with
          \* all-equal scores
          /\ y_true \in LabelVectors
          /\ y_pred \in LabelVectors
          /\ labels \in OptLabels
          /\ y_score \in {None, Some(ZeroMatrix(Len(y_true), n_classes_of(y_true)))}
       \/ \* any score matrix with one column per class of y_true
          /\ y_true \in LabelVectors
          /\ y_pred = y_true
          /\ labels = None
          /\ \E rows \in 1..MaxLen :
                y_score \in {Some(m) : m \in Matrices(rows, n_classes_of(y_true))}
       \/ /\ y_true = ExampleTrue
          /\ y_pred = ExamplePred
          /\ labels = None
          /\ y_score = None

Init ==
    /\ InitCheckPred \/ InitCalculateMetrics
    /\ class_names = None
    /\ metrics = NoRecord
    /\ history = <<>>
    /\ ret = NotCalled
    /\ calls = 0
    /\ IdleDisk

CheckPred ==
    /\ op = "check_pred"
    /\ ret.status = "none"
    /\ ret' = Ok(check_pred(y_true, cls))
    /\ calls' = calls + 1
    /\ UNCHANGED <<op, y_true, y_pred, y_score, labels, class_names, cls,
                   metrics, history, dirState, files, writes, figures, drawn,
                   fault, pre>>

CalculateMetrics ==
    /\ op = "calculate_metrics"
    /\ ret.status = "none"
    /\ ret' = calculate_metrics(y_true, y_pred, y_score, labels)
    /\ calls' = calls + 1
    /\ UNCHANGED <<op, y_true, y_pred, y_score, labels, class_names, cls,
                   metrics, history, dirState, files, writes, figures, drawn,
                   fault, pre>>

Next == CheckPred \/ CalculateMetrics

Spec == Init /\ [][Next]_vars

---------------------------------------------------------------------------
(* Plotting: a caller invokes one plotting operation, repeatedly, on the   *)
(* same inputs and the same directory                                      *)

Foreign == "notes.txt"

InitDisk ==
    /\ dirState \in {"missing", "dir"}
    /\ files \in (IF dirState = "missing" THEN {{}} ELSE {{}, {Foreign}})
    /\ writes = <<>>
    /\ figures = 0
    /\ drawn = <<>>
    /\ fault = "none"
    /\ pre = [dirState |-> dirState, files |-> files]

\* the curve plots read the scores only inside roc_curve and
\* precision_recall_curve; the coordinates of a curve are not modelled, so the
\* matrix is drawn by its shape
InitCurves ==
    /\ op \in {"plot_roc_curve", "plot_precision_recall_curve"}
    /\ y_true \in LabelVectors
    /\ \E rows \in 1..MaxLen :
          y_score = Some(ZeroMatrix(rows, n_classes_of(y_true)))
    /\ class_names \in OptNames(n_classes_of(y_true))
    /\ y_pred = <<>>
    /\ metrics = NoRecord
    /\ history = <<>>

\* plot_metrics_bar is handed what calculate_metrics returned
InitBar ==
    /\ op = "plot_metrics_bar"
    /\ y_true \in LabelVectors
    /\ y_pred \in {p \in LabelVectors : Len(p) = Len(y_true)}
    /\ y_score \in {None, Some(ZeroMatrix(Len(y_true), n_classes_of(y_true)))}
    /\ metrics = calculate_metrics(y_true, y_pred, y_score, None).val
    /\ class_names \in OptNames(Len(metrics.precision))
    /\ history = <<>>

InitLine ==
    /\ op = "plot_metrics_line"
    /\ history \in SeqsOf(RecordShapes, 0, MaxRounds)
                   \cup {ExampleHistory(-1), ExampleHistory(2)}
    /\ y_true = <<>>
    /\ y_pred = <<>>
    /\ y_score = None
    /\ class_names = None
    /\ metrics = NoRecord

InitConfusion ==
    /\ op = "plot_confusion_matrix"
    /\ y_true \in LabelVectors
    /\ y_pred \in LabelVectors
    /\ class_names \in OptNames(Len(Unique(y_true \o y_pred)))
    /\ y_score = None
    /\ metrics = NoRecord
    /\ history = <<>>

InitPlot ==
    /\ InitCurves \/ InitBar \/ InitLine \/ InitConfusion
    /\ labels = None
    /\ cls = 0
    /\ ret = NotCalled
    /\ calls = 0
    /\ InitDisk

\* where the file system may fail a call: creating the directory (only
\* attempted when it is missing) or writing an image
Faults(o, d) ==
    ({"none", "makedirs", "savefig"}
       \cup (IF o = "plot_confusion_matrix" THEN {"savefig2"} ELSE {}))
    \ (IF d = "missing" THEN {} ELSE {"makedirs"})

Apply(p, flt) ==
    /\ ret' = p.ret
    /\ dirState' = p.dirState
    /\ files' = p.files
    /\ writes' = p.writes
    /\ figures' = p.figures
    /\ drawn' = p.drawn
    /\ fault' = flt
    /\ pre' = [dirState |-> dirState, files |-> files]
    /\ calls' = calls + 1
    /\ UNCHANGED <<op, y_true, y_pred, y_score, labels, class_names, cls,
                   metrics, history>>

PlotRocCurve ==
    /\ op = "plot_roc_curve"
    /\ calls < MaxCalls
    /\ \E flt \in Faults(op, dirState) :
          Apply(plot_roc_curve(y_true, y_score[1], class_names, dirState, files,
                               figures, flt), flt)

PlotPrecisionRecallCurve ==
    /\ op = "plot_precision_recall_curve"
    /\ calls < MaxCalls
    /\ \E flt \in Faults(op, dirState) :
          Apply(plot_precision_recall_curve(y_true, y_score[1], class_names,
                                            dirState, files, figures, flt), flt)

PlotMetricsBar ==
    /\ op = "plot_metrics_bar"
    /\ calls < MaxCalls
    /\ \E flt \in Faults(op, dirState) :
          Apply(plot_metrics_bar(metrics, class_names, dirState, files, figures,
                                 flt), flt)

PlotMetricsLine ==
    /\ op = "plot_metrics_line"
    /\ calls < MaxCalls
    /\ \E flt \in Faults(op, dirState) :
          Apply(plot_metrics_line(history, dirState, files, figures, flt), flt)

PlotConfusionMatrix ==
    /\ op = "plot_confusion_matrix"
    /\ calls < MaxCalls
    /\ \E flt \in Faults(op, dirState) :
          Apply(plot_confusion_matrix(y_true, y_pred, class_names, dirState,
                                      files, figures, flt), flt)

NextPlot ==
    \/ PlotRocCurve
    \/ PlotPrecisionRecallCurve
    \/ PlotMetricsBar
    \/ PlotMetricsLine
    \/ PlotConfusionMatrix

SpecPlot == InitPlot /\ [][NextPlot]_vars

---------------------------------------------------------------------------
(* Properties of the metrics computation (checked under Spec)              *)

Called == calls > 0

\* class c has a sample in yt, and yt has a sample of another class
HasBoth(yt, c) ==
    /\ \E s \in DOMAIN yt : yt[s] = c
    /\ \E s \in DOMAIN yt : yt[s] # c

\* C1: check_pred(y_true, c) returns a vector as long as y_true whose entry
\* s is 1 exactly when y_true[s] = c, and 0 otherwise.
C1_BinarizationComparesToClass ==
    (op = "check_pred" /\ Called) =>
        /\ Len(ret.val) = Len(y_true)
        /\ \A s \in DOMAIN y_true :
              ret.val[s] = (IF y_true[s] = cls THEN 1 ELSE 0)

\* C2: with a score matrix, a class that calculate_metrics iterates over and
\* that never appears in y_true, or appears in every sample, gets the AUC
\* entry 0.0, and computing it raises nothing: a call whose iterated classes
\* are all of that kind returns a record.
C2_DegenerateClassGetsSentinel ==
    (op = "calculate_metrics" /\ Called /\ y_score # None
        /\ Len(y_true) = Len(y_pred)) =>
        /\ ret.status = "ok" =>
              \A k \in DOMAIN ret.val.auc :
                  ~HasBoth(y_true, k - 1) => ret.val.auc[k] = Zero
        /\ (\A c \in 0..(n_classes_of(y_true) - 1) : ~HasBoth(y_true, c))
              => ret.status = "ok"

\* the counts the claim C4 speaks of, taken sample by sample
TP(c) == Count({s \in DOMAIN y_true : y_true[s] = c /\ y_pred[s] = c})
FP(c) == Count({s \in DOMAIN y_true : y_true[s] # c /\ y_pred[s] = c})
FN(c) == Count({s \in DOMAIN y_true : y_true[s] = c /\ y_pred[s] # c})
Ratio(n, d) == IF d = 0 THEN <<0, 1>> ELSE Div(n, d)
Half == <<1, 2>>

\* C4: for label vectors of equal length calculate_metrics returns, for each
\* class c, precision TP/(TP+FP), recall TP/(TP+FN) and F1
\* 2TP/(2TP+FP+FN), each 0 when its denominator is 0; y_true =
\* [0,1,2,0,1,2], y_pred = [0,1,1,0,2,2] gives [1, 1/2, 1/2] three times.
C4_PerClassPrecisionRecallF1 ==
    (op = "calculate_metrics" /\ Called /\ Len(y_true) = Len(y_pred)
        /\ (y_score # None => Len(y_score[1]) = Len(y_true))) =>
        /\ ret.status = "ok"
        /\ LET L == prf_labels(y_true, y_pred, labels)
           IN /\ Len(ret.val.precision) = Len(L)
              /\ Len(ret.val.recall) = Len(L)
              /\ Len(ret.val.f1) = Len(L)
              /\ \A k \in DOMAIN L :
                    /\ ret.val.precision[k] = Ratio(TP(L[k]), TP(L[k]) + FP(L[k]))
                    /\ ret.val.recall[k] = Ratio(TP(L[k]), TP(L[k]) + FN(L[k]))
                    /\ ret.val.f1[k] =
                          Ratio(2 * TP(L[k]), 2 * TP(L[k]) + FP(L[k]) + FN(L[k]))
        /\ (y_true = ExampleTrue /\ y_pred = ExamplePred) =>
              /\ ret.val.precision = <<One, Half, Half>>
              /\ ret.val.recall = <<One, Half, Half>>
              /\ ret.val.f1 = <<One, Half, Half>>

C4_Witness ==
    /\ op = "calculate_metrics"
    /\ y_true = ExampleTrue
    /\ y_pred = ExamplePred
    /\ ret.status = "ok"
    /\ ret.val.f1 = <<One, Half, Half>>

\* C10: in a record returned by calculate_metrics with a score matrix, 'auc'
\* is as long as 'precision', 'recall' and 'f1', and entry k of each is about
\* the same class, whatever y_true, y_pred and labels are.
C10_AucAlignedWithPrecision ==
    (op = "calculate_metrics" /\ Called /\ y_score # None
        /\ ret.status = "ok") =>
        /\ Len(ret.val.auc) = Len(ret.val.precision)
        /\ Len(ret.val.auc) = Len(ret.val.recall)
        /\ Len(ret.val.auc) = Len(ret.val.f1)
        /\ \A k \in DOMAIN ret.val.auc :
              prf_labels(y_true, y_pred, labels)[k] = k - 1

---------------------------------------------------------------------------
(* Properties of the plotting operations (checked under SpecPlot)          *)

CurveOps == {"plot_roc_curve", "plot_precision_recall_curve"}

\* the image files of each operation, as the specification names them
OutputsOf(o) ==
    CASE o = "plot_roc_curve" -> {"roc_curves.png"}
      [] o = "plot_precision_recall_curve" -> {"precision_recall_curves.png"}
      [] o = "plot_metrics_bar" -> {"classification_metrics.png"}
      [] o = "plot_metrics_line" -> {"metrics_over_time.png"}
      [] o = "plot_confusion_matrix" ->
            {"confusion_matrix_normalized.png", "confusion_matrix_raw.png"}

\* C3: plot_roc_curve and plot_precision_recall_curve draw a curve for class
\* c of 0..n_classes-1 exactly when y_true has a sample of c and a sample of
\* another class; the other classes are skipped without an error.
C3_CurveIffBothPresent ==
    (op \in CurveOps /\ Called /\ Len(y_score[1]) = Len(y_true)
        /\ fault = "none") =>
        /\ ret.status = "ok"
        /\ drawn = {c \in 0..(n_classes_of(y_true) - 1) : HasBoth(y_true, c)}

\* C5: every figure a plotting call opened is closed when the call returns
\* or raises, so no figure is open between calls.
C5_NoOpenFigureBetweenCalls == figures = 0

\* C6: a successful plotting call leaves the directory existing and holding
\* what it held before plus the operation's fixed-named file(s), nothing
\* else; a call on an existing directory never fails for its existing, so a
\* repeated call overwrites the same names and adds no file.
C6_DirectoryAndFilesAfterCall ==
    Called =>
        /\ ret.status = "ok" =>
              /\ dirState = "dir"
              /\ files = pre.files \cup OutputsOf(op)
              /\ Range(writes) = OutputsOf(op)
        /\ ret.status = "raise" =>
              /\ ret.val # "FileExistsError"
              /\ ret.val = "makedirs" => pre.dirState = "missing"
              /\ files \subseteq pre.files \cup OutputsOf(op)
        /\ (pre.dirState = "dir" /\ OutputsOf(op) \subseteq pre.files
              /\ ret.status = "ok") => files = pre.files

C6_Witness ==
    /\ op = "plot_confusion_matrix"
    /\ calls = 2
    /\ ret.status = "ok"
    /\ pre.dirState = "dir"
    /\ OutputsOf(op) \subseteq pre.files
    /\ Foreign \in files

\* the vectors handed to the operation disagree in length
Mismatched ==
    \/ op \in CurveOps /\ Len(y_score[1]) # Len(y_true)
    \/ op = "plot_confusion_matrix" /\ Len(y_pred) # Len(y_true)

\* C7: an operation given label vectors and score rows of different lengths
\* raises an error and writes no image file, whatever the classes are.
C7_MismatchedLengthsRaise ==
    (Called /\ Mismatched) =>
        /\ ret.status = "raise"
        /\ writes = <<>>
        /\ files = pre.files

\* a + b of two fractions
RatAdd(a, b) == Div(a[1] * b[2] + b[1] * a[2], a[2] * b[2])

RECURSIVE RatSum(_)
RatSum(row) ==
    IF Len(row) = 0 THEN Zero ELSE RatAdd(row[1], RatSum(Tail(row)))

\* every class of the confusion matrix has a sample in y_true
TruthCoversClasses == Range(y_pred) \subseteq Range(y_true)

\* C8: with a ground truth that has a sample of every class,
\* plot_confusion_matrix writes confusion_matrix_normalized.png and then
\* confusion_matrix_raw.png; entry [r][c] of the normalized matrix is
\* count[r][c] over the number of samples of true class r, and every row
\* sums to 1.
C8_ConfusionMatrixImages ==
    (op = "plot_confusion_matrix" /\ Called /\ Len(y_true) = Len(y_pred)
        /\ TruthCoversClasses) =>
        /\ fault = "none" =>
              /\ ret.status = "ok"
              /\ OutputsOf(op) \subseteq files
              /\ writes = <<"confusion_matrix_normalized.png",
                            "confusion_matrix_raw.png">>
        /\ "confusion_matrix_raw.png" \in Range(writes) =>
              writes[1] = "confusion_matrix_normalized.png"
        /\ Len(drawn) > 0 =>
              LET L == Unique(y_true \o y_pred)
                  cm_norm == drawn[1]
              IN /\ DOMAIN cm_norm = DOMAIN L
                 /\ \A r \in DOMAIN L :
                       /\ DOMAIN cm_norm[r] = DOMAIN L
                       /\ RatSum(cm_norm[r]) = One
                       /\ \A c \in DOMAIN L :
                             cm_norm[r][c] =
                                 Div(Count({s \in DOMAIN y_true :
                                              y_true[s] = L[r] /\ y_pred[s] = L[c]}),
                                     Count({s \in DOMAIN y_true : y_true[s] = L[r]}))

\* a history whose records all have K classes and all carry, or all lack,
\* an 'auc' list of K entries
Uniform(h) ==
    /\ Len(h) > 0
    /\ \A r \in DOMAIN h :
          /\ Len(h[r].precision) = Len(h[1].precision)
          /\ HasAuc(h[r]) = HasAuc(h[1])
          /\ HasAuc(h[r]) => Len(h[r].auc) = Len(h[1].precision)

\* C9: for a history of R records of K classes each, plot_metrics_line makes
\* K subplots, each of 3 lines without AUC and 4 with it, every line having
\* R points at the round indices 1..R.
C9_SubplotsAndLines ==
    (op = "plot_metrics_line" /\ Called /\ Uniform(history)
        /\ fault # "makedirs") =>
        /\ fault = "none" => ret.status = "ok"
        /\ Len(drawn) = Len(history[1].precision)
        /\ \A k \in DOMAIN drawn :
              /\ Len(drawn[k]) = (IF HasAuc(history[1]) THEN 4 ELSE 3)
              /\ \A j \in DOMAIN drawn[k] :
                    /\ Len(drawn[k][j].x) = Len(history)
                    /\ Len(drawn[k][j].y) = Len(history)
                    /\ \A r \in 1..Len(history) : drawn[k][j].x[r] = r

C9_Witness ==
    /\ op = "plot_metrics_line"
    /\ history = ExampleHistory(2)
    /\ ret.status = "ok"
    /\ Len(drawn) = 2
    /\ Len(drawn[1]) = 4
    /\ Len(drawn[2][4].x) = 5

===========================================================================
